---- MODULE Spec2Model ----
(***************************************************************************)
(* A model of the Blackjack round engine (blackjack/game.py) with its      *)
(* collaborators: cards and shoe (cards.py), hand valuation (hand.py),     *)
(* player bankrolls (players.py) and the strategy hooks (strategies.py).   *)
(*                                                                         *)
(* A card is represented by its rank: no code of the engine reads a suit.  *)
(* The shoe is represented by the number of cards left in it; the rank a   *)
(* draw returns is chosen nondeterministically, as the shuffle is random.  *)
(* Money amounts are integers; the configured bets are even, so that the   *)
(* 1.5 x payout of a natural is an integer too.                            *)
(*                                                                         *)
(* play_round is split at its loop iterations and at the calls it makes    *)
(* into the strategies; pc is the position inside play_round.              *)
(***************************************************************************)
EXTENDS Integers, Sequences, FiniteSets, TLC

\* ------------------------------------------------------------------ bounds

\* The largest number of play_round calls of a session.
MaxRounds == 2

\* The largest number of "hit" decisions a strategy returns in one turn.
MaxHits == 1

\* ------------------------------------------------------------- cards.py

SUITS == {"spades", "hearts", "diamonds", "clubs"}

RANKS == <<"A", "2", "3", "4", "5", "6", "7", "8", "9", "10", "J", "Q", "K">>

\* int(self.rank) of a numeric rank
PipValue(rank) ==
    CASE rank = "2" -> 2 [] rank = "3" -> 3 [] rank = "4" -> 4
      [] rank = "5" -> 5 [] rank = "6" -> 6 [] rank = "7" -> 7
      [] rank = "8" -> 8 [] rank = "9" -> 9 [] rank = "10" -> 10

\* Card.values
CardValues(rank) ==
    IF rank = "A" THEN {1, 11}
    ELSE IF rank \in {"J", "Q", "K"} THEN {10}
    ELSE {PipValue(rank)}

\* ---------------------------------------------------------------- helpers

Range(s) == {s[i] : i \in DOMAIN s}

Max(S) == CHOOSE x \in S : \A y \in S : y <= x

Min(S) == CHOOSE x \in S : \A y \in S : x <= y

\* -------------------------------------------------------------- hand.py

\* Hand.values: every total of the hand, an Ace counted as 1 or as 11; the
\* loop over the cards starts from the totals [0]
values(cards) ==
    LET RECURSIVE totals(_)
        totals(n) ==
            IF n = 0 THEN {0}
            ELSE {t + v : t \in totals(n - 1), v \in CardValues(cards[n])}
    IN  totals(Len(cards))

\* best_value that takes the largest total also when none is up to 21
best_value_Largest(cards) == Max(values(cards))

\* Hand.best_value
best_value(cards) ==
    LET valid_totals == {t \in values(cards) : t <= 21}
    IN  IF valid_totals # {} THEN Max(valid_totals) ELSE Min(values(cards))

\* is_blackjack with every Ace counted as 1
is_blackjack_AceLow(cards) == Len(cards) = 2 /\ Min(values(cards)) = 21

\* Hand.is_blackjack
is_blackjack(cards) == Len(cards) = 2 /\ best_value(cards) = 21

\* Hand.is_bust
is_bust(cards) == best_value(cards) > 21

\* Hand.is_soft
is_soft(cards) ==
    LET totals == values(cards)
    IN  (\E t \in totals : t <= 21) /\ Max(totals) # Min(totals)

\* ----------------------------------------------------------- the session

\* The names of the configured players, in configured order (distinct).
players == <<"P1", "P2">>

PlayerNames == Range(players)

\* The sessions explored: the players' bankroll and bet_amount at creation,
\* the game's options, the number of play_round calls of the caller, and the
\* ranks of the cards the shuffles of the session bring up.
\*   1. two active players (P1 can double, P2 cannot), one round;
\*   2. P1 can double, P2 cannot afford the bet, dealer stands on a soft 17;
\*   3. P1 cannot afford the bet, P2 cannot double, dealer hits a soft 17;
\*   4. a session of several rounds: P1 has one bet, P2 cannot afford it;
\*   5. a session of several rounds in which nobody can afford the bet.
Sessions ==
    {[bankroll |-> [P1 |-> 20, P2 |-> 10], bet_amount |-> [P1 |-> 10, P2 |-> 10],
      dealer_hits_soft_17 |-> TRUE, decks |-> 6, rounds |-> 1,
      drawn_ranks |-> {"A", "K"}],
     [bankroll |-> [P1 |-> 20, P2 |-> 4], bet_amount |-> [P1 |-> 10, P2 |-> 10],
      dealer_hits_soft_17 |-> FALSE, decks |-> 6, rounds |-> 1,
      drawn_ranks |-> {"A", "5", "K"}],
     [bankroll |-> [P1 |-> 4, P2 |-> 50], bet_amount |-> [P1 |-> 10, P2 |-> 30],
      dealer_hits_soft_17 |-> TRUE, decks |-> 1, rounds |-> 1,
      drawn_ranks |-> {"A", "5", "K"}],
     [bankroll |-> [P1 |-> 10, P2 |-> 4], bet_amount |-> [P1 |-> 10, P2 |-> 10],
      dealer_hits_soft_17 |-> FALSE, decks |-> 1, rounds |-> MaxRounds,
      drawn_ranks |-> {"A", "K"}],
     [bankroll |-> [P1 |-> 4, P2 |-> 6], bet_amount |-> [P1 |-> 10, P2 |-> 10],
      dealer_hits_soft_17 |-> FALSE, decks |-> 1, rounds |-> MaxRounds,
      drawn_ranks |-> {"A", "K"}]}

VARIABLES
    \* configuration, fixed at construction
    bet_amount,             \* PlayerConfig.bet_amount, per player
    dealer_hits_soft_17,    \* BlackjackGame.dealer_hits_soft_17
    decks,                  \* Shoe.decks
    rounds,                 \* the caller's number of play_round calls
    drawn_ranks,            \* the ranks the shuffled shoe brings up
    \* state that lives as long as the game
    bankroll,               \* PlayerConfig.bankroll, per player
    shoe,                   \* len(Shoe._cards)
    round_number,           \* BlackjackGame.round_number
    \* locals of play_round
    pc,                     \* the position in play_round
    active_players,         \* the sequence of active players
    cur,                    \* the index of the loop over active_players
    hands,                  \* player_states[name].hand.cards, per player
    dealer_hand,            \* dealer_hand.cards
    bet,                    \* the turn's bet, then player_states[name].bet
    results,                \* the list results
    \* what the strategies and the caller observe
    snapshot,               \* the RoundSnapshot handed over last
    hook,                   \* the hook it was handed to, and whose
    decisions,              \* what decide returned this round, per player
    on_round_start_calls,   \* calls of on_round_start this round, per player
    on_round_end_calls,     \* calls of on_round_end this round, per player
    returned,               \* what the last play_round call returned
    \* history of the round
    round_bankroll,         \* the bankrolls when play_round was called
    round_shoe,             \* the shoe when play_round was called
    dealer_turns,           \* how often the dealer's loop was run this round
    draws,                  \* the cards Shoe.draw returned this round, in order
    \* history of the session
    requested,              \* the arguments the constructors were called with
    rounds_completed,       \* the play_round calls that returned
    rounds_aborted          \* the play_round calls that raised

vars == <<bet_amount, dealer_hits_soft_17, decks, rounds, drawn_ranks,
          bankroll, shoe,
          round_number, pc, active_players, cur, hands, dealer_hand, bet,
          results, snapshot, hook, decisions, on_round_start_calls,
          on_round_end_calls, returned, round_bankroll, round_shoe,
          dealer_turns, draws, requested, rounds_completed, rounds_aborted>>

config_vars == <<bet_amount, dealer_hits_soft_17, decks, rounds, drawn_ranks>>

\* ------------------------------------------------------- cards.py: Shoe

\* The cards of one deck: Card(rank, suit) for suit in SUITS for rank in RANKS
CardsPerDeck == Cardinality(SUITS) * Len(RANKS)

\* Shoe.__init__ raises ValueError
shoe_init_raises(d) == d < 1

\* _reshuffle that builds one deck too few
reshuffled_OneDeckShort == CardsPerDeck * (decks - 1)

\* Shoe._reshuffle: the number of cards of a refilled shoe
reshuffled == CardsPerDeck * decks

\* Shoe.draw: the number of cards left after a draw from a shoe of n cards
shoe_draw(n) == IF n = 0 THEN reshuffled - 1 ELSE n - 1

\* Shoe.draw: "return self._cards.pop()" finds no card and raises IndexError
draw_raises(n) == (IF n = 0 THEN reshuffled ELSE n) = 0

RECURSIVE shoe_after(_, _)
\* the number of cards left after k draws
shoe_after(n, k) == IF k = 0 THEN n ELSE shoe_after(shoe_draw(n), k - 1)

\* ----------------------------------------------------------- players.py

\* __post_init__ that lets a bankroll or a bet of zero pass
post_init_raises_BelowZero(balance, b) == b < 0 \/ balance < 0

\* PlayerConfig.__post_init__ raises ValueError
post_init_raises(balance, b) == b <= 0 \/ balance <= 0

\* can_place_bet that asks for any money at all
can_place_bet_AnyMoney(p) == bankroll[p] > 0

\* can_place_bet with a strict comparison
can_place_bet_Strict(p) == bankroll[p] > bet_amount[p]

\* PlayerConfig.can_place_bet
can_place_bet(p) == bankroll[p] >= bet_amount[p]

\* adjust_bankroll that leaves the bankroll as it is
adjust_bankroll_Forgets(balance, amount) == balance

\* PlayerConfig.adjust_bankroll
adjust_bankroll(balance, amount) == balance + amount

\* ------------------------------------------------------- strategies.py

\* What a strategy's decide may return: the three actions of the engine and
\* a string that is none of them.
Decisions == {"hit", "stand", "double", "split"}

\* RoundSnapshot(...), built by play_round for player p
RoundSnapshot(hand, allowed, balance, b) ==
    [round_number    |-> round_number,
     hand            |-> hand,
     dealer_upcard   |-> dealer_hand[1],
     allowed_actions |-> allowed,
     cards_remaining |-> shoe,
     player_bankroll |-> balance,
     bet_amount      |-> b]

\* no snapshot was handed over yet in this round
NoSnapshot ==
    [round_number |-> 0, hand |-> <<>>, dealer_upcard |-> "none",
     allowed_actions |-> <<>>, cards_remaining |-> 0, player_bankroll |-> 0,
     bet_amount |-> 0]

\* ---------------------------------------------------------------- game.py

\* GameResult(...)
GameResult(name, outcome, payout, player_total, dealer_total, blackjack) ==
    [player_name |-> name, outcome |-> outcome, payout |-> payout,
     player_total |-> player_total, dealer_total |-> dealer_total,
     is_blackjack |-> blackjack]

\* play_round, the filter: the players who can afford the bet
ActivePlayers == SelectSeq(players, LAMBDA p : can_place_bet(p))

\* SkipResults that forgets the players who sit out
SkipResults_None == <<>>

\* play_round, the filter: a skip result for every other player
SkipResults ==
    LET skipped == SelectSeq(players, LAMBDA p : ~can_place_bet(p))
    IN  [i \in DOMAIN skipped |-> GameResult(skipped[i], "skip", 0, 0, 0, FALSE)]

\* play_round, "if not active_players: return results"
early_return(act) == act = <<>>

\* the index of player p in active_players
Seat(act, p) == CHOOSE i \in DOMAIN act : act[i] = p

\* next_round_number that leaves the counter as it is
next_round_number_Same(n) == n

\* play_round, "self.round_number += 1", its first statement
next_round_number(n) == n + 1

\* DealOrder that serves the dealer before the players
DealOrder_DealerFirst(k, i, j) == j * (k + 1) + (i % (k + 1)) + 1

\* play_round, the initial deal: the draw that gives player i (the dealer:
\* i = k + 1) the card of pass j, with k active players
DealOrder(k, i, j) == j * (k + 1) + i

\* allowed_actions without the check of the bankroll
allowed_actions_NoFunds(hand, balance, b) ==
    IF Len(hand) = 2
    THEN <<"hit", "stand", "double">>
    ELSE <<"hit", "stand">>

\* allowed_actions without the check of the hand's size
allowed_actions_AnySize(hand, balance, b) ==
    IF balance >= b * 2
    THEN <<"hit", "stand", "double">>
    ELSE <<"hit", "stand">>

\* play_round, the legal actions of a decision
allowed_actions(hand, balance, b) ==
    IF Len(hand) = 2 /\ balance >= b * 2
    THEN <<"hit", "stand", "double">>
    ELSE <<"hit", "stand">>

\* is_allowed without the check
is_allowed_Unchecked(decision, allowed) == TRUE

\* play_round, "if decision not in allowed_actions: raise ValueError"
is_allowed(decision, allowed) == decision \in Range(allowed)

\* turn_finished that keeps the turn open after every hit
turn_finished_HitGoesOn(decision, hand) == decision # "hit"

\* play_round, the value of finished after a decision was applied and left
\* the hand as given
turn_finished(decision, hand) ==
    LET finished == IF decision = "hit" THEN is_bust(hand) ELSE TRUE
    IN  IF is_blackjack(hand) \/ is_bust(hand) THEN TRUE ELSE finished

\* after_turn that leaves the loop after the first turn that ends
after_turn_StopsEarly(i) == [pc |-> "dealer", cur |-> i]

\* play_round, the loop over active_players: where play_round goes on when
\* the turn of the player at index i has ended
after_turn(i) ==
    IF i < Len(active_players)
    THEN [pc |-> "turn", cur |-> i + 1]
    ELSE [pc |-> "dealer", cur |-> i]

\* _dealer_should_hit that draws on every 17
dealer_should_hit_On17(hand) == best_value(hand) <= 17

\* BlackjackGame._dealer_should_hit
dealer_should_hit(hand) ==
    LET best == best_value(hand)
    IN  IF best < 17 THEN TRUE
        ELSE IF best = 17 /\ is_soft(hand) /\ dealer_hits_soft_17 THEN TRUE
        ELSE FALSE

\* Resolution with the dealer's bust looked at before the player's
Resolution_DealerBustFirst(hand, dealer, b) ==
    LET dealer_total == best_value(dealer)
        player_total == best_value(hand)
        blackjack    == is_blackjack(hand)
    IN  IF dealer_total > 21 THEN [outcome |-> "win", payout |-> b]
        ELSE IF is_bust(hand) THEN [outcome |-> "lose", payout |-> 0 - b]
        ELSE IF blackjack /\ ~is_blackjack(dealer)
             THEN [outcome |-> "blackjack", payout |-> (b * 3) \div 2]
        ELSE IF is_blackjack(dealer) /\ ~blackjack
             THEN [outcome |-> "lose", payout |-> 0 - b]
        ELSE IF player_total > dealer_total THEN [outcome |-> "win", payout |-> b]
        ELSE IF player_total < dealer_total
             THEN [outcome |-> "lose", payout |-> 0 - b]
        ELSE [outcome |-> "push", payout |-> 0]

\* Resolution with a natural paid like any other win
Resolution_BlackjackPaysEven(hand, dealer, b) ==
    LET dealer_total == best_value(dealer)
        player_total == best_value(hand)
        blackjack    == is_blackjack(hand)
    IN  IF is_bust(hand) THEN [outcome |-> "lose", payout |-> 0 - b]
        ELSE IF blackjack /\ ~is_blackjack(dealer)
             THEN [outcome |-> "blackjack", payout |-> b]
        ELSE IF dealer_total > 21 THEN [outcome |-> "win", payout |-> b]
        ELSE IF is_blackjack(dealer) /\ ~blackjack
             THEN [outcome |-> "lose", payout |-> 0 - b]
        ELSE IF player_total > dealer_total THEN [outcome |-> "win", payout |-> b]
        ELSE IF player_total < dealer_total
             THEN [outcome |-> "lose", payout |-> 0 - b]
        ELSE [outcome |-> "push", payout |-> 0]

\* play_round, "Resolve bets": the outcome and the payout of a hand with bet b
Resolution(hand, dealer, b) ==
    LET dealer_total == best_value(dealer)
        dealer_bust  == dealer_total > 21
        player_total == best_value(hand)
        blackjack    == is_blackjack(hand)
    IN  IF is_bust(hand) THEN [outcome |-> "lose", payout |-> 0 - b]
        ELSE IF blackjack /\ ~is_blackjack(dealer)
             THEN [outcome |-> "blackjack", payout |-> (b * 3) \div 2]
        ELSE IF dealer_bust THEN [outcome |-> "win", payout |-> b]
        ELSE IF is_blackjack(dealer) /\ ~blackjack
             THEN [outcome |-> "lose", payout |-> 0 - b]
        ELSE IF player_total > dealer_total THEN [outcome |-> "win", payout |-> b]
        ELSE IF player_total < dealer_total
             THEN [outcome |-> "lose", payout |-> 0 - b]
        ELSE [outcome |-> "push", payout |-> 0]

\* ------------------------------------------------------------------- Init

NoHands == [p \in PlayerNames |-> <<>>]

NoCalls == [p \in PlayerNames |-> 0]

\* the values of the variables for the players and the arguments of session
\* s, with play_round at the given position
GameState(s, position) ==
    /\ bet_amount = s.bet_amount
    /\ dealer_hits_soft_17 = s.dealer_hits_soft_17
    /\ decks = s.decks
    /\ rounds = s.rounds
    /\ drawn_ranks = s.drawn_ranks
    /\ bankroll = s.bankroll
    /\ shoe = CardsPerDeck * s.decks
    /\ round_number = 0
    /\ pc = position
    /\ active_players = <<>>
    /\ cur = 0
    /\ hands = NoHands
    /\ dealer_hand = <<>>
    /\ bet = NoCalls
    /\ results = <<>>
    /\ snapshot = NoSnapshot
    /\ hook = <<"none", "none">>
    /\ decisions = NoHands
    /\ on_round_start_calls = NoCalls
    /\ on_round_end_calls = NoCalls
    /\ returned = <<>>
    /\ round_bankroll = s.bankroll
    /\ round_shoe = CardsPerDeck * s.decks
    /\ dealer_turns = 0
    /\ draws = <<>>
    /\ requested = s
    /\ rounds_completed = 0
    /\ rounds_aborted = 0

\* the state after BlackjackGame(players, decks=..., dealer_hits_soft_17=...)
\* for the players and the arguments of session s
Constructed(s) == GameState(s, "idle")

\* a game constructed for one of the sessions
Init == \E s \in Sessions : Constructed(s)

\* ---------------------------------------------------------------- actions

\* play_round up to the player turns: the round counter, the filter of the
\* players who can afford their bet, the early return, the initial deal
StartRound ==
    /\ pc \in {"idle", "done", "aborted"}
    /\ round_number < rounds
    /\ LET act == ActivePlayers
           k   == Len(act)
       IN  /\ round_number' = next_round_number(round_number)
           /\ active_players' = act
           /\ results' = SkipResults
           /\ round_bankroll' = bankroll
           /\ round_shoe' = shoe
           /\ IF early_return(act)
              THEN /\ pc' = "done"
                   /\ cur' = 0
                   /\ returned' = SkipResults
                   /\ hands' = NoHands
                   /\ dealer_hand' = <<>>
                   /\ bet' = NoCalls
                   /\ shoe' = shoe
                   /\ draws' = <<>>
                   /\ rounds_completed' = rounds_completed + 1
              ELSE \E dealt \in [1 .. 2 * (k + 1) -> drawn_ranks] :
                   /\ pc' = "turn"
                   /\ cur' = 1
                   /\ returned' = <<>>
                   /\ hands' = [p \in PlayerNames |->
                                  IF p \in Range(act)
                                  THEN <<dealt[DealOrder(k, Seat(act, p), 0)],
                                         dealt[DealOrder(k, Seat(act, p), 1)]>>
                                  ELSE <<>>]
                   /\ dealer_hand' = <<dealt[DealOrder(k, k + 1, 0)],
                                       dealt[DealOrder(k, k + 1, 1)]>>
                   /\ bet' = [p \in PlayerNames |->
                                IF p \in Range(act) THEN bet_amount[p] ELSE 0]
                   /\ shoe' = shoe_after(shoe, 2 * (k + 1))
                   /\ draws' = dealt
                   /\ rounds_completed' = rounds_completed
    /\ snapshot' = NoSnapshot
    /\ hook' = <<"none", "none">>
    /\ decisions' = NoHands
    /\ on_round_start_calls' = NoCalls
    /\ on_round_end_calls' = NoCalls
    /\ dealer_turns' = 0
    /\ UNCHANGED <<config_vars, bankroll, requested, rounds_aborted>>

\* play_round, one iteration of "for player in active_players" up to its
\* while loop: on_round_start, and the natural that ends the turn at once
BeginTurn ==
    /\ pc = "turn"
    /\ LET p    == active_players[cur]
           hand == hands[p]
           next == after_turn(cur)
       IN  /\ snapshot' = RoundSnapshot(hand, <<"hit", "stand">>, bankroll[p], bet[p])
           /\ hook' = <<"on_round_start", p>>
           /\ on_round_start_calls' = [on_round_start_calls EXCEPT ![p] = @ + 1]
           /\ IF is_blackjack(hand)
              THEN pc' = next.pc /\ cur' = next.cur
              ELSE pc' = "decide" /\ cur' = cur
    /\ UNCHANGED <<config_vars, bankroll, shoe, round_number, active_players,
                   hands, dealer_hand, bet, results, decisions,
                   on_round_end_calls, returned, round_bankroll, round_shoe,
                   dealer_turns, draws, requested, rounds_completed,
                   rounds_aborted>>

\* play_round, one iteration of "while not finished": the legal actions, the
\* snapshot, the strategy's decision, its check and its effect. The strategy
\* is one that returns any of Decisions and "hit" up to MaxHits times, or,
\* if legal_only, one that returns any legal action any number of times.
Decision(legal_only) ==
    /\ pc = "decide"
    /\ \E decision \in Decisions, card \in drawn_ranks :
       LET p       == active_players[cur]
           hand    == hands[p]
           allowed == allowed_actions(hand, bankroll[p], bet[p])
           drawn   == Append(hand, card)
           next    == after_turn(cur)
       IN  /\ IF legal_only
              THEN decision \in Range(allowed)
              ELSE decision = "hit" => Len(hand) - 2 < MaxHits
           /\ snapshot' = RoundSnapshot(hand, allowed, bankroll[p], bet[p])
           /\ hook' = <<"decide", p>>
           /\ decisions' = [decisions EXCEPT ![p] = Append(@, decision)]
           /\ IF ~is_allowed(decision, allowed)
              THEN /\ pc' = "aborted"
                   /\ rounds_aborted' = rounds_aborted + 1
                   /\ UNCHANGED <<cur, hands, shoe, bet, draws>>
              ELSE IF decision = "hit"
              THEN /\ hands' = [hands EXCEPT ![p] = drawn]
                   /\ shoe' = shoe_draw(shoe)
                   /\ draws' = Append(draws, card)
                   /\ rounds_aborted' = rounds_aborted
                   /\ bet' = bet
                   /\ IF turn_finished(decision, drawn)
                      THEN pc' = next.pc /\ cur' = next.cur
                      ELSE pc' = "decide" /\ cur' = cur
              ELSE IF decision = "double"
              THEN /\ bet' = [bet EXCEPT ![p] = @ * 2]
                   /\ hands' = [hands EXCEPT ![p] = drawn]
                   /\ shoe' = shoe_draw(shoe)
                   /\ draws' = Append(draws, card)
                   /\ rounds_aborted' = rounds_aborted
                   /\ pc' = next.pc /\ cur' = next.cur
              ELSE /\ UNCHANGED <<hands, shoe, bet, draws, rounds_aborted>>
                   /\ IF turn_finished(decision, hand)
                      THEN pc' = next.pc /\ cur' = next.cur
                      ELSE pc' = "decide" /\ cur' = cur
    /\ UNCHANGED <<config_vars, bankroll, round_number, active_players,
                   dealer_hand, results, on_round_start_calls,
                   on_round_end_calls, returned, round_bankroll, round_shoe,
                   dealer_turns, requested, rounds_completed>>

\* a decision of a strategy that may return anything
Decide == Decision(FALSE)

\* a decision of a strategy that returns legal actions only
DecideLegal == Decision(TRUE)

\* play_round, one iteration of "while self._dealer_should_hit(dealer_hand)"
DealerDraw ==
    /\ pc = "dealer"
    /\ dealer_should_hit(dealer_hand)
    /\ \E card \in drawn_ranks :
           /\ dealer_hand' = Append(dealer_hand, card)
           /\ draws' = Append(draws, card)
    /\ shoe' = shoe_draw(shoe)
    /\ UNCHANGED <<config_vars, bankroll, round_number, pc, active_players, cur,
                   hands, bet, results, snapshot, hook, decisions,
                   on_round_start_calls, on_round_end_calls, returned,
                   round_bankroll, round_shoe, dealer_turns, requested,
                   rounds_completed, rounds_aborted>>

\* play_round, the end of the dealer's loop
DealerStand ==
    /\ pc = "dealer"
    /\ ~dealer_should_hit(dealer_hand)
    /\ pc' = "resolve"
    /\ cur' = 1
    /\ dealer_turns' = dealer_turns + 1
    /\ UNCHANGED <<config_vars, bankroll, shoe, round_number, active_players,
                   hands, dealer_hand, bet, results, snapshot, hook, decisions,
                   on_round_start_calls, on_round_end_calls, returned,
                   round_bankroll, round_shoe, draws, requested,
                   rounds_completed, rounds_aborted>>

\* play_round, one iteration of the loop of "Resolve bets": the outcome, the
\* bankroll, the result, on_round_end; after the last one, the return
Resolve ==
    /\ pc = "resolve"
    /\ LET p    == active_players[cur]
           hand == hands[p]
           r    == Resolution(hand, dealer_hand, bet[p])
           paid == adjust_bankroll(bankroll[p], r.payout)
           res  == Append(results,
                          GameResult(p, r.outcome, r.payout, best_value(hand),
                                     best_value(dealer_hand), is_blackjack(hand)))
       IN  /\ bankroll' = [bankroll EXCEPT ![p] = paid]
           /\ results' = res
           /\ snapshot' = RoundSnapshot(hand, <<>>, paid, bet[p])
           /\ hook' = <<"on_round_end", p>>
           /\ on_round_end_calls' = [on_round_end_calls EXCEPT ![p] = @ + 1]
           /\ IF cur < Len(active_players)
              THEN /\ pc' = "resolve" /\ cur' = cur + 1
                   /\ returned' = returned
                   /\ rounds_completed' = rounds_completed
              ELSE /\ pc' = "done" /\ cur' = cur
                   /\ returned' = res
                   /\ rounds_completed' = rounds_completed + 1
    /\ UNCHANGED <<config_vars, shoe, round_number, active_players, hands,
                   dealer_hand, bet, decisions, on_round_start_calls,
                   round_bankroll, round_shoe, dealer_turns, draws, requested,
                   rounds_aborted>>

Next ==
    \/ StartRound
    \/ BeginTurn
    \/ Decide
    \/ DealerDraw
    \/ DealerStand
    \/ Resolve

Spec == Init /\ [][Next]_vars

\* ----------------------------------------------------- notions of the claims

Last(s) == s[Len(s)]

\* the indices of the results of the players who took part in the round
Resolved == {i \in DOMAIN results : results[i].outcome # "skip"}

\* every total of the hand is over 21
Bust(hand) == \A t \in values(hand) : t > 21

\* exactly two cards that can count 21
Natural(hand) == Len(hand) = 2 /\ 21 \in values(hand)

\* the largest total up to 21
Total(hand) == Max({t \in values(hand) : t <= 21})

\* the player's decision "double" was accepted in this round
Doubled(p) ==
    \E i \in DOMAIN decisions[p] :
        /\ decisions[p][i] = "double"
        /\ ~(pc = "aborted" /\ active_players[cur] = p /\ i = Len(decisions[p]))

\* the cards drawn in this round
CardsOut ==
    LET RECURSIVE Held(_)
        Held(S) == IF S = {} THEN 0
                   ELSE LET p == CHOOSE q \in S : TRUE
                        IN  Len(hands[p]) + Held(S \ {p})
    IN  Held(PlayerNames) + Len(dealer_hand)

\* --------------------------------------------------------------------- C1

\* the rules (a) to (g), the first that matches
C1_FirstRule(hand, dealer) ==
    IF Bust(hand) THEN "lose"
    ELSE IF Natural(hand) /\ ~Natural(dealer) THEN "blackjack"
    ELSE IF Bust(dealer) THEN "win"
    ELSE IF Natural(dealer) /\ ~Natural(hand) THEN "lose"
    ELSE IF Total(hand) > Total(dealer) THEN "win"
    ELSE IF Total(hand) < Total(dealer) THEN "lose"
    ELSE "push"

\* C1: the outcome of every active player is that of the first rule that
\* matches, in the order (a) bust, (b) natural against no natural, (c) dealer
\* bust, (d) dealer natural, (e) higher, (f) lower, (g) equal total; a bust
\* player loses also against a bust dealer, two naturals push, and a 21 of
\* three or more cards is no blackjack and loses to a dealer natural.
C1_ResolveOrder ==
    \A i \in Resolved :
        LET hand    == hands[results[i].player_name]
            outcome == results[i].outcome
        IN  /\ outcome = C1_FirstRule(hand, dealer_hand)
            /\ Bust(hand) /\ Bust(dealer_hand) => outcome = "lose"
            /\ Natural(hand) /\ Natural(dealer_hand) => outcome = "push"
            /\ Len(hand) >= 3 /\ ~Bust(hand) /\ Total(hand) = 21 =>
                   /\ outcome # "blackjack"
                   /\ Natural(dealer_hand) => outcome = "lose"

\* a 21 of three cards was resolved against a dealer natural
C1_Witness ==
    \E i \in Resolved :
        LET hand == hands[results[i].player_name]
        IN  /\ Len(hand) >= 3 /\ ~Bust(hand) /\ Total(hand) = 21
            /\ Natural(dealer_hand)
            /\ results[i].outcome = "lose"

\* --------------------------------------------------------------------- C2

\* C2: a blackjack pays 1.5 x bet_amount and its bet was not doubled, a push
\* pays 0, a win pays the bet and a loss costs the bet, the bet being
\* bet_amount, or twice bet_amount after a double; no other outcome occurs.
C2_PayoutLaw ==
    \A i \in Resolved :
        LET p      == results[i].player_name
            r      == results[i]
            placed == IF Doubled(p) THEN 2 * bet_amount[p] ELSE bet_amount[p]
        IN  /\ r.outcome \in {"blackjack", "push", "win", "lose"}
            /\ r.outcome = "blackjack" =>
                   2 * r.payout = 3 * bet_amount[p] /\ ~Doubled(p)
            /\ r.outcome = "push" => r.payout = 0
            /\ r.outcome = "win" => r.payout = placed
            /\ r.outcome = "lose" => r.payout = 0 - placed

\* one player lost a doubled bet and another was paid a blackjack
C2_Witness ==
    \E i, j \in Resolved :
        /\ Doubled(results[i].player_name)
        /\ results[i].outcome = "lose"
        /\ results[i].payout = 0 - 2 * bet_amount[results[i].player_name]
        /\ results[j].outcome = "blackjack"
        /\ 2 * results[j].payout = 3 * bet_amount[results[j].player_name]

\* --------------------------------------------------------------------- C3

\* C3: decide is never called with a hand that a hit has brought to 21 or
\* over 21: a hand of three or more cards handed to decide counts under 21.
C3_HitTo21EndsTurn ==
    (hook[1] = "decide" /\ Len(snapshot.hand) >= 3) =>
        (~Bust(snapshot.hand) /\ Total(snapshot.hand) < 21)

\* --------------------------------------------------------------------- C4

\* C4: "double" is among the allowed actions handed to decide exactly when
\* the hand has two cards and the bankroll covers twice the bet, which is so
\* only at a player's first decision; an accepted double is the player's
\* only decision of the round, doubles the bet, adds exactly one card and
\* ends the turn, so the doubled hand has three cards from then on.
C4_Double ==
    /\ hook[1] = "decide" =>
           LET p == hook[2]
               offered == "double" \in Range(snapshot.allowed_actions)
           IN  /\ offered <=> (/\ Len(snapshot.hand) = 2
                               /\ snapshot.player_bankroll >= 2 * snapshot.bet_amount)
               /\ snapshot.player_bankroll = round_bankroll[p]
               /\ Len(snapshot.hand) = Len(decisions[p]) + 1
               /\ offered => Len(decisions[p]) = 1
    /\ \A p \in PlayerNames :
           IF Doubled(p)
           THEN /\ decisions[p] = <<"double">>
                /\ bet[p] = 2 * bet_amount[p]
                /\ Len(hands[p]) = 3
                /\ ~(pc \in {"turn", "decide"} /\ active_players[cur] = p)
           ELSE p \in Range(active_players) => bet[p] = bet_amount[p]

\* a player doubled, went bust on the card and was resolved with three cards
C4_Witness ==
    \E i \in Resolved :
        LET p == results[i].player_name
        IN  Doubled(p) /\ Len(hands[p]) = 3 /\ Bust(hands[p])

\* --------------------------------------------------------------------- C5

\* in an aborted round: nothing is returned, no bankroll has changed, no
\* on_round_end was called, nobody was resolved, the refused decision drew no
\* card and left the bet; and a refused decision always aborts
C5_Aborted ==
    /\ pc = "aborted" =>
           LET p == active_players[cur]
           IN  /\ hook = <<"decide", p>>
               /\ Last(decisions[p]) \notin Range(snapshot.allowed_actions)
               /\ returned = <<>>
               /\ bankroll = round_bankroll
               /\ \A q \in PlayerNames : on_round_end_calls[q] = 0
               /\ Resolved = {}
               /\ hands[p] = snapshot.hand
               /\ bet[p] = snapshot.bet_amount
               /\ shoe = snapshot.cards_remaining
               /\ shoe = shoe_after(round_shoe, CardsOut)
    /\ hook[1] = "decide" =>
           (Last(decisions[hook[2]]) \notin Range(snapshot.allowed_actions)
                => pc = "aborted")

\* the step that aborts applies nothing, and after it the only step is the
\* caller's next call of play_round
C5_AbortStep ==
    /\ (pc # "aborted" /\ pc' = "aborted") =>
           /\ hands' = hands /\ bet' = bet /\ shoe' = shoe
           /\ dealer_hand' = dealer_hand
           /\ bankroll' = bankroll /\ results' = results
    /\ pc = "aborted" => round_number' = round_number + 1

\* C5: a decision outside the snapshot's allowed_actions aborts play_round at
\* once: the action is not applied, the strategy is not asked again, nothing
\* is returned, no on_round_end fires and no bankroll changes.
C5_IllegalActionAborts == []C5_Aborted /\ [][C5_AbortStep]_vars

\* "double" as the first decision with bankroll 50 and bet 30 aborted the round
C5_Witness ==
    /\ pc = "aborted"
    /\ decisions[active_players[cur]] = <<"double">>
    /\ bankroll[active_players[cur]] = 50
    /\ bet_amount[active_players[cur]] = 30

\* --------------------------------------------------------------------- C6

\* the indices of the resolved results of player p
ResultsOf(p) == {i \in Resolved : results[i].player_name = p}

\* C6: a resolved player's bankroll is the bankroll at the start of the round
\* plus the payout of the player's result, every other bankroll is the one at
\* the start of the round, and the snapshot handed to on_round_end carries
\* the bankroll with the payout already added.
C6_BankrollByPayout ==
    /\ \A p \in PlayerNames :
           /\ ResultsOf(p) = {} => bankroll[p] = round_bankroll[p]
           /\ \A i \in ResultsOf(p) :
                  bankroll[p] = round_bankroll[p] + results[i].payout
    /\ hook[1] = "on_round_end" =>
           /\ ResultsOf(hook[2]) # {}
           /\ \A i \in ResultsOf(hook[2]) :
                  snapshot.player_bankroll = round_bankroll[hook[2]] + results[i].payout

\* on_round_end was handed the bankroll left by a lost, doubled bet
C6_Witness ==
    /\ hook[1] = "on_round_end"
    /\ Doubled(hook[2])
    /\ snapshot.player_bankroll = round_bankroll[hook[2]] - 2 * bet_amount[hook[2]]

\* --------------------------------------------------------------------- C7

\* the players who were dealt a natural
DealtNatural == {p \in Range(active_players) : Natural(SubSeq(hands[p], 1, 2))}

\* a player who was dealt a natural decides nothing, gets no further card and
\* keeps the bet, and no hook is called twice
C7_NoDecision ==
    \A p \in DealtNatural :
        /\ decisions[p] = <<>>
        /\ Len(hands[p]) = 2
        /\ bet[p] = bet_amount[p]
        /\ on_round_start_calls[p] <= 1
        /\ on_round_end_calls[p] <= 1

\* C7 as claimed: a player who was dealt a natural is never asked to decide,
\* gets no further card, keeps the bet, and when the play_round call is over
\* on_round_start and on_round_end have each been called exactly once.
C7_NaturalAsClaimed ==
    /\ C7_NoDecision
    /\ pc \in {"done", "aborted"} =>
           \A p \in DealtNatural :
               on_round_start_calls[p] = 1 /\ on_round_end_calls[p] = 1

\* C7 as amended: ... and when the round has run to its end on_round_start and
\* on_round_end have each been called exactly once; in a round that another
\* player's illegal action aborts, on_round_end is not called at all.
C7_Natural ==
    /\ C7_NoDecision
    /\ pc = "done" =>
           \A p \in DealtNatural :
               on_round_start_calls[p] = 1 /\ on_round_end_calls[p] = 1
    /\ pc = "aborted" => \A p \in DealtNatural : on_round_end_calls[p] = 0

\* a round has run to its end for a player who was dealt a natural
C7_Witness ==
    /\ pc = "done"
    /\ \E p \in DealtNatural :
           on_round_start_calls[p] = 1 /\ on_round_end_calls[p] = 1

\* --------------------------------------------------------------------- C8

\* C8: in a round, a player is active exactly when the bankroll at its start
\* covers bet_amount; every other player has exactly one result, a skip with
\* payout 0, holds no card, has no hook called and keeps the bankroll, and
\* the cards drawn are those of the active players and of the dealer.
C8_Skip ==
    pc # "idle" =>
        /\ \A p \in PlayerNames :
               p \in Range(active_players) <=> round_bankroll[p] >= bet_amount[p]
        /\ \A p \in PlayerNames \ Range(active_players) :
               /\ Cardinality({i \in DOMAIN results : results[i].player_name = p}) = 1
               /\ \A i \in DOMAIN results :
                      results[i].player_name = p =>
                          results[i].outcome = "skip" /\ results[i].payout = 0
               /\ hands[p] = <<>>
               /\ decisions[p] = <<>>
               /\ on_round_start_calls[p] = 0
               /\ on_round_end_calls[p] = 0
               /\ bankroll[p] = round_bankroll[p]
        /\ shoe = shoe_after(round_shoe, CardsOut)

\* a round has run to its end with one player skipped and one resolved
C8_Witness ==
    /\ pc = "done"
    /\ Resolved # {}
    /\ \E i \in DOMAIN results : results[i].outcome = "skip"

\* --------------------------------------------------------------------- C9

\* the policy as claimed
C9_Draws(hand) ==
    \/ best_value(hand) < 17
    \/ best_value(hand) = 17 /\ is_soft(hand) /\ dealer_hits_soft_17

\* once the dealer has stood the policy asks for no card and the total is 17
\* or more
C9_Stood ==
    (pc = "resolve" \/ Resolved # {}) =>
        ~C9_Draws(dealer_hand) /\ best_value(dealer_hand) >= 17

\* the dealer's hand grows by one card, only where the policy asks for one
C9_DrawStep ==
    (round_number' = round_number /\ dealer_hand' # dealer_hand) =>
        /\ Len(dealer_hand') = Len(dealer_hand) + 1
        /\ SubSeq(dealer_hand', 1, Len(dealer_hand)) = dealer_hand
        /\ C9_Draws(dealer_hand)
        /\ ~dealer_hits_soft_17 => best_value(dealer_hand) < 17

TurnEnded(p) ==
    /\ on_round_start_calls[p] = 1
    /\ ~(pc = "decide" /\ active_players[cur] = p)

\* the dealer gets no card beyond the first two, and nobody is resolved,
\* before every active player's turn has ended; a player's hooks are not
\* called before the turns of the players configured earlier have ended;
\* nobody is resolved before the dealer has stood
C10_Order ==
    /\ (Len(dealer_hand) > 2 \/ dealer_turns > 0 \/ Resolved # {}) =>
           /\ pc \in {"dealer", "resolve", "done"}
           /\ \A p \in Range(active_players) : TurnEnded(p)
    /\ \A i, j \in DOMAIN active_players :
           (/\ i < j
            /\ \/ on_round_start_calls[active_players[j]] > 0
               \/ decisions[active_players[j]] # <<>>)
               => TurnEnded(active_players[i])
    /\ dealer_turns <= 1
    /\ Resolved # {} => dealer_turns = 1 /\ ~C9_Draws(dealer_hand)

\* C10 as claimed: the phases are ordered, and the dealer's turn has run
\* exactly once in every round that has returned.
C10_PhasesAsClaimed ==
    /\ C10_Order
    /\ pc = "done" => dealer_turns = 1

\* C10 as amended: the phases are ordered, and the dealer's turn has run
\* exactly once in every round that has returned with an active player (also
\* when every player went bust), and not at all in a round without an active
\* player or in an aborted round.
C10_Phases ==
    /\ C10_Order
    /\ pc = "done" => dealer_turns = (IF active_players = <<>> THEN 0 ELSE 1)
    /\ pc = "aborted" => dealer_turns = 0

\* a round of two active players who both went bust has returned
C10_Witness ==
    /\ pc = "done"
    /\ Len(active_players) = 2
    /\ \A p \in Range(active_players) : Bust(hands[p])
    /\ dealer_turns = 1

\* -------------------------------------------------------------------- C11

\* an Ace of the hand counts 11 in its best total: two totals are up to 21
AceCountsEleven(hand) == Cardinality({t \in values(hand) : t <= 21}) >= 2

\* the first n cards of the dealer's hand
DealerHandAt(n) == SubSeq(dealer_hand, 1, n)

\* C11: a hand for which is_soft holds has an Ace that counts 11 in its best
\* total (two distinct totals up to 21); so a dealer with dealer_hits_soft_17
\* draws at a best total of 17 only when that 17 counts an Ace as 11, and
\* stands on a 17 whose Aces all count 1, such as A, 6, 10.
C11_SoftCountsAceEleven ==
    /\ \A hand \in {dealer_hand} \cup Range(hands) :
           is_soft(hand) => AceCountsEleven(hand)
    /\ \A n \in 2 .. Len(dealer_hand) - 1 :
           best_value(DealerHandAt(n)) = 17 => AceCountsEleven(DealerHandAt(n))

\* -------------------------------------------------------------------- C12

\* a round with cards: the call of play_round got past the early return
Dealt == pc # "idle" /\ active_players # <<>>

\* the deal has just ended: no turn was begun yet
JustDealt == Dealt /\ pc = "turn" /\ cur = 1

\* C12: in the deal every active player and the dealer get exactly two cards,
\* drawn in the order: one card to each active player as configured, one to
\* the dealer, and the same again; the 2 * (k + 1) cards dealt to k active
\* players go to their seats by the position of the draw alone, and the
\* upcard of every snapshot is the dealer's first card.
C12_Deal ==
    Dealt =>
        LET k == Len(active_players)
        IN  /\ Len(draws) >= 2 * (k + 1)
            /\ \A i \in 1 .. k :
                   SubSeq(hands[active_players[i]], 1, 2)
                       = <<draws[i], draws[k + 1 + i]>>
            /\ SubSeq(dealer_hand, 1, 2) = <<draws[k + 1], draws[2 * k + 2]>>
            /\ \A p \in PlayerNames \ Range(active_players) : hands[p] = <<>>
            /\ JustDealt =>
                   /\ Len(draws) = 2 * (k + 1)
                   /\ Len(dealer_hand) = 2
                   /\ \A i \in 1 .. k : Len(hands[active_players[i]]) = 2
            /\ hook[1] # "none" => snapshot.dealer_upcard = draws[k + 1]

\* two players were dealt A,A and K,A, the dealer K,K, and the first was asked
C12_Witness ==
    /\ Len(active_players) = 2
    /\ SubSeq(draws, 1, 6) = <<"A", "K", "K", "A", "A", "K">>
    /\ hook = <<"decide", "P1">>

\* ------------------------------------------------------------- the shoe

\* The largest number of decks of a shoe that is drawn empty.
MaxDecks == 2

\* One player who can afford one bet, one round, a shoe of 1 .. MaxDecks decks
ShoeSessions ==
    {[bankroll |-> [P1 |-> 10, P2 |-> 4], bet_amount |-> [P1 |-> 10, P2 |-> 10],
      dealer_hits_soft_17 |-> FALSE, decks |-> d, rounds |-> 1,
      drawn_ranks |-> {"5", "K"}] : d \in 1 .. MaxDecks}

InitShoe == \E s \in ShoeSessions : Constructed(s)

\* Shoe.draw, called on game.shoe by the owner of the game before a round
draw ==
    /\ pc = "idle"
    /\ IF draw_raises(shoe)
       THEN pc' = "raised" /\ shoe' = shoe
       ELSE pc' = pc /\ shoe' = shoe_draw(shoe)
    /\ UNCHANGED <<config_vars, bankroll, round_number, active_players, cur,
                   hands, dealer_hand, bet, results, snapshot, hook, decisions,
                   on_round_start_calls, on_round_end_calls, returned,
                   round_bankroll, round_shoe, dealer_turns, draws, requested,
                   rounds_completed, rounds_aborted>>

NextShoe ==
    \/ draw
    \/ Next

\* a shoe drawn down to any number of cards, and a round played with it
SpecShoe == InitShoe /\ [][NextShoe]_vars

\* -------------------------------------------------------------------- C13

\* the draws of a step: the owner's one, the deal's, a hit's or the dealer's
C13_DrawsOfStep ==
    IF draw THEN 1
    ELSE IF round_number' # round_number THEN Len(draws')
    ELSE Len(draws') - Len(draws)

\* the cards left when n draws were made from a shoe of the given size
C13_Left(size, n) ==
    IF n <= size THEN size - n ELSE 52 * decks - (n - size)

C13_Count == shoe \in 0 .. 52 * decks /\ pc # "raised"

C13_DrawStep ==
    /\ shoe' = C13_Left(shoe, C13_DrawsOfStep)
    /\ draw /\ shoe > 0 => shoe' = shoe - 1
    /\ draw /\ shoe = 0 => shoe' = 52 * decks - 1

\* C13: the shoe is never exhausted: no draw raises, over any sequence of
\* draws and rounds; a draw from a shoe with cards lowers cards_remaining by
\* one, a draw from an empty shoe refills it to 52 * decks cards and leaves
\* 52 * decks - 1, and cards_remaining stays within 0 .. 52 * decks.
C13_ShoeNeverExhausted == []C13_Count /\ [][C13_DrawStep]_vars

\* a deal that began with two cards in the shoe and refilled it on the way
C13_Witness ==
    /\ JustDealt
    /\ round_shoe = 2
    /\ shoe = 52 * decks - 2

\* -------------------------------------------------------------------- C14

\* What the fields of the snapshot handed over last read now. The variable
\* snapshot keeps the values at the time of the call; the object's field hand
\* is the player's Hand itself ("hand=hand"), so it reads the cards the Hand
\* holds now.
snapshot_now ==
    IF hook[1] = "none" THEN snapshot
    ELSE [snapshot EXCEPT !.hand = hands[hook[2]]]

\* C14: a RoundSnapshot is never mutated after construction: every field
\* read through a snapshot, the cards of its hand included, stays as it was
\* when the snapshot was handed to the strategy, also after the engine has
\* added cards to the player's hand.
C14_SnapshotNeverMutated == snapshot_now = snapshot

\* ------------------------------------------------------------- the hand

\* The largest number of cards added to a hand built card by card.
MaxCards == 4

\* The hand is built from cards of every rank.
HandSession ==
    [bankroll |-> [P1 |-> 10, P2 |-> 10], bet_amount |-> [P1 |-> 10, P2 |-> 10],
     dealer_hits_soft_17 |-> FALSE, decks |-> 1, rounds |-> 0,
     drawn_ranks |-> Range(RANKS)]

\* Hand(): dealer_hand is the empty hand, no round is played
InitHand == Constructed(HandSession)

\* Hand.add_card, called on the hand with a card of any rank
add_card ==
    /\ pc = "idle"
    /\ Len(dealer_hand) < MaxCards
    /\ \E card \in drawn_ranks : dealer_hand' = Append(dealer_hand, card)
    /\ UNCHANGED <<config_vars, bankroll, shoe, round_number, pc,
                   active_players, cur, hands, bet, results, snapshot, hook,
                   decisions, on_round_start_calls, on_round_end_calls,
                   returned, round_bankroll, round_shoe, dealer_turns, draws,
                   requested, rounds_completed, rounds_aborted>>

NextHand == add_card

\* every hand of up to MaxCards cards
SpecHand == InitHand /\ [][NextHand]_vars

\* -------------------------------------------------------------------- C15

\* the number of Aces of the hand
C15_Aces(hand) == Cardinality({i \in DOMAIN hand : hand[i] = "A"})

RECURSIVE C15_Others(_)
\* the sum of the cards that are no Ace: faces 10, the others their pips
C15_Others(hand) ==
    IF hand = <<>> THEN 0
    ELSE LET rank == Head(hand)
             pips == IF rank = "A" THEN 0
                     ELSE IF rank \in {"J", "Q", "K"} THEN 10
                     ELSE PipValue(rank)
         IN  pips + C15_Others(Tail(hand))

\* the sums with every Ace counted 1 or 11: k of them count 11
C15_Totals(hand) ==
    {C15_Others(hand) + 11 * k + (C15_Aces(hand) - k) : k \in 0 .. C15_Aces(hand)}

\* C15: values() is the set, without duplicates, of the sums that count every
\* Ace as 1 or as 11 and every other card at its value; a hand without an Ace
\* has one total, the empty hand the total 0; best_value is the largest total
\* up to 21 if there is one and the smallest total otherwise; is_bust holds
\* iff every total is over 21.
C15_Totalling ==
    LET hand   == dealer_hand
        totals == C15_Totals(hand)
        upTo21 == {t \in totals : t <= 21}
    IN  /\ values(hand) = totals
        /\ C15_Aces(hand) = 0 => Cardinality(values(hand)) = 1
        /\ hand = <<>> => values(hand) = {0}
        /\ best_value(hand) \in totals
        /\ upTo21 # {} =>
               /\ best_value(hand) \in upTo21
               /\ \A t \in upTo21 : t <= best_value(hand)
        /\ upTo21 = {} => \A t \in totals : best_value(hand) <= t
        /\ is_bust(hand) <=> \A t \in totals : t > 21

\* a bust hand with an Ace: two totals, both over 21
C15_Witness ==
    /\ pc = "idle"
    /\ dealer_hand = <<"K", "A", "Q", "2">>
    /\ values(dealer_hand) = {23, 33}
    /\ best_value(dealer_hand) = 23

\* ------------------------------------------------------- the construction

\* nothing was asked for yet
NoRequest ==
    [bankroll |-> NoCalls, bet_amount |-> NoCalls, dealer_hits_soft_17 |-> FALSE,
     decks |-> 0, rounds |-> 0, drawn_ranks |-> {}]

\* a session that can be constructed: P1 has one bet, P2 less than a bet
GoodRequest ==
    [bankroll |-> [P1 |-> 10, P2 |-> 4], bet_amount |-> [P1 |-> 10, P2 |-> 10],
     dealer_hits_soft_17 |-> FALSE, decks |-> 1, rounds |-> 1,
     drawn_ranks |-> {"A", "K"}]

\* The arguments the constructors are called with: the good ones, and the
\* same with a bankroll, a bet or the number of decks at or below zero.
Requests ==
    {GoodRequest,
     [GoodRequest EXCEPT !.bankroll["P1"] = 0],
     [GoodRequest EXCEPT !.bankroll["P2"] = 0 - 4],
     [GoodRequest EXCEPT !.bet_amount["P1"] = 0],
     [GoodRequest EXCEPT !.bet_amount["P2"] = 0 - 10],
     [GoodRequest EXCEPT !.decks = 0],
     [GoodRequest EXCEPT !.decks = 0 - 1]}

\* no PlayerConfig and no BlackjackGame exists
InitConfig == GameState(NoRequest, "new")

\* PlayerConfig(...) for every player, then BlackjackGame(players, decks=...,
\* dealer_hits_soft_17=...), which builds Shoe(decks): the first ValueError
\* ends the construction and leaves no object
Construct ==
    /\ pc = "new"
    /\ \E s \in Requests :
           /\ requested' = s
           /\ IF \/ \E p \in PlayerNames :
                       post_init_raises(s.bankroll[p], s.bet_amount[p])
                 \/ shoe_init_raises(s.decks)
              THEN /\ pc' = "rejected"
                   /\ UNCHANGED <<config_vars, bankroll, shoe, round_bankroll,
                                  round_shoe>>
              ELSE /\ pc' = "idle"
                   /\ bet_amount' = s.bet_amount
                   /\ dealer_hits_soft_17' = s.dealer_hits_soft_17
                   /\ decks' = s.decks
                   /\ rounds' = s.rounds
                   /\ drawn_ranks' = s.drawn_ranks
                   /\ bankroll' = s.bankroll
                   /\ shoe' = CardsPerDeck * s.decks
                   /\ round_bankroll' = s.bankroll
                   /\ round_shoe' = CardsPerDeck * s.decks
    /\ UNCHANGED <<round_number, active_players, cur, hands, dealer_hand, bet,
                   results, snapshot, hook, decisions, on_round_start_calls,
                   on_round_end_calls, returned, dealer_turns, draws,
                   rounds_completed, rounds_aborted>>

NextConfig ==
    \/ Construct
    \/ Next

\* the construction of the players and the game, then the rounds
SpecConfig == InitConfig /\ [][NextConfig]_vars

\* -------------------------------------------------------------------- C16

\* the players and the game exist
C16_Exists == pc \notin {"new", "rejected"}

C16_Valid ==
    /\ pc = "rejected" <=>
           /\ pc # "new"
           /\ \/ \E p \in PlayerNames : requested.bankroll[p] <= 0
              \/ \E p \in PlayerNames : requested.bet_amount[p] <= 0
              \/ requested.decks < 1
    /\ pc = "rejected" =>
           /\ bankroll = NoCalls /\ bet_amount = NoCalls
           /\ decks = 0 /\ shoe = 0 /\ round_number = 0
    /\ C16_Exists =>
           /\ decks >= 1
           /\ \A p \in PlayerNames :
                  /\ bet_amount[p] > 0
                  /\ bet_amount[p] = requested.bet_amount[p]
                  /\ round_number = 0 =>
                         bankroll[p] > 0 /\ bankroll[p] = requested.bankroll[p]

C16_BetKept == C16_Exists => bet_amount' = bet_amount

\* C16: the creation of a player with a bankroll or a bet_amount of zero or
\* less fails and yields no player, the creation of a shoe or a game with
\* less than one deck fails; so when a session starts every player has a
\* bankroll and a bet_amount above zero, and the bet_amount never changes
\* afterwards.
C16_Configuration == []C16_Valid /\ [][C16_BetKept]_vars

\* a constructed session in which a round changed a bankroll
C16_Witness ==
    /\ pc = "done"
    /\ requested = GoodRequest
    /\ bankroll["P1"] # requested.bankroll["P1"]
    /\ bet_amount = requested.bet_amount

\* -------------------------------------------------------------------- C17

\* no call of play_round is running
AtRest == pc \in {"idle", "done", "aborted"}

\* every snapshot carries the number of the running call
C17_SameNumber == hook[1] # "none" => snapshot.round_number = round_number

\* the statement as claimed: the counter counts the rounds that reached
\* Done, an aborted round leaves it as it was
C17_CounterAsClaimed ==
    /\ AtRest => round_number = rounds_completed
    /\ C17_SameNumber

C17_Counts ==
    /\ round_number = rounds_completed + rounds_aborted
                          + (IF AtRest THEN 0 ELSE 1)
    /\ C17_SameNumber

C17_Step ==
    IF AtRest
    THEN round_number' = round_number + 1
    ELSE round_number' = round_number

\* C17: the round counter advances by exactly one with every call of
\* play_round, when the call begins, and at no other time: after n calls it
\* is n, whether they reached Done or were aborted; every snapshot built
\* during one round carries the same round number, that of the call; a round
\* aborted by a protocol violation has advanced the counter, so the next
\* round sees the number after it.
C17_Counter == []C17_Counts /\ [][C17_Step]_vars

\* the round after an aborted one asks a decision with round number 2
C17_Witness ==
    /\ rounds_aborted = 1
    /\ rounds_completed = 0
    /\ hook[1] = "decide"
    /\ snapshot.round_number = 2

\* ------------------------------------------------- rounds that run to the end

\* One player who can double, a dealer who hits a soft 17, one round, and
\* strategies that return legal actions as often as they are asked:
\*   1. six decks that bring up Aces and kings, for the longest turns there
\*      are: Ace after Ace;
\*   2. one deck that brings up fives and kings.
LiveSessions ==
    {[bankroll |-> [P1 |-> 20, P2 |-> 4], bet_amount |-> [P1 |-> 10, P2 |-> 10],
      dealer_hits_soft_17 |-> TRUE, decks |-> 6, rounds |-> 1,
      drawn_ranks |-> {"A", "K"}],
     [bankroll |-> [P1 |-> 20, P2 |-> 4], bet_amount |-> [P1 |-> 10, P2 |-> 10],
      dealer_hits_soft_17 |-> TRUE, decks |-> 1, rounds |-> 1,
      drawn_ranks |-> {"5", "K"}]}

InitLive == \E s \in LiveSessions : Constructed(s)

\* The cards the owner of the game leaves in the shoe before the round: a
\* shoe that runs out in a turn, one that runs out in the deal, an empty one.
ShoeLeft == {5, 3, 0}

\* Shoe.draw, called on game.shoe by the owner of the new game while more
\* cards than that are left: every call takes one card of a shoe with cards
draw_down ==
    /\ pc = "idle"
    /\ round_number = 0
    /\ shoe = reshuffled
    /\ \E left \in ShoeLeft : left < shoe /\ shoe' = left
    /\ UNCHANGED <<config_vars, bankroll, round_number, pc, active_players,
                   cur, hands, dealer_hand, bet, results, snapshot, hook,
                   decisions, on_round_start_calls, on_round_end_calls,
                   returned, round_bankroll, round_shoe, dealer_turns, draws,
                   requested, rounds_completed, rounds_aborted>>

\* the steps of a running call of play_round
RoundStep ==
    \/ BeginTurn
    \/ DecideLegal
    \/ DealerDraw
    \/ DealerStand
    \/ Resolve

NextLive ==
    \/ draw_down
    \/ StartRound
    \/ RoundStep

\* play_round is sequential code: a call that has begun takes its next step,
\* and the strategies return
SpecLive == InitLive /\ [][NextLive]_vars /\ WF_vars(RoundStep)

\* -------------------------------------------------------------------- C18

\* the smallest total of the hand
C18_Smallest(hand) == Min(values(hand))

\* a decision is asked only for a hand whose smallest total is up to 21
C18_Asked ==
    pc = "decide" => C18_Smallest(hands[active_players[cur]]) <= 21

\* a card added in a turn raises the smallest total by 1 at least, and the
\* dealer draws only on a smallest total up to 17
C18_Raises ==
    round_number' = round_number =>
        /\ \A p \in PlayerNames :
               hands'[p] # hands[p] =>
                   C18_Smallest(hands'[p]) >= C18_Smallest(hands[p]) + 1
        /\ dealer_hand' # dealer_hand =>
               /\ C18_Smallest(dealer_hand) <= 17
               /\ C18_Smallest(dealer_hand') >= C18_Smallest(dealer_hand) + 1

\* C18: every call of play_round ends, whatever legal actions the strategies
\* return and however often they hit: every hit raises the smallest total of
\* the hand by 1 at least and no decision is asked for a bust hand, so a turn
\* ends after finitely many decisions; the dealer's loop ends after finitely
\* many draws; a refill of the shoe does not stall the round.
C18_Terminates ==
    /\ []C18_Asked
    /\ [][C18_Raises]_vars
    /\ (~AtRest) ~> (pc = "done")

\* a player hit Ace after Ace until bust, across a refill of the shoe
C18_Witness ==
    /\ pc = "done"
    /\ round_shoe = 5
    /\ shoe > round_shoe
    /\ Len(hands["P1"]) = 22
    /\ \A i \in 1 .. Len(decisions["P1"]) : decisions["P1"][i] = "hit"
    /\ Bust(hands["P1"])

\* -------------------------------------------------------------------- C19

\* C19: no bankroll is ever negative, after any sequence of rounds: a player
\* is dealt in only with a bankroll of bet_amount at least and doubles only
\* with a bankroll of twice the bet at least, so the largest loss of a round
\* is not more than the bankroll held when the round began.
C19_NoDebt ==
    /\ \A p \in PlayerNames : bankroll[p] >= 0
    /\ pc # "idle" =>
           /\ \A p \in Range(active_players) :
                  /\ round_bankroll[p] >= bet_amount[p]
                  /\ Doubled(p) => round_bankroll[p] >= 2 * bet_amount[p]
           /\ \A i \in Resolved :
                  0 - results[i].payout <= round_bankroll[results[i].player_name]

\* a player who held two bets doubled, lost and has nothing left
C19_Witness ==
    /\ pc = "done"
    /\ Doubled("P1")
    /\ round_bankroll["P1"] = 2 * bet_amount["P1"]
    /\ bankroll["P1"] = 0

\* -------------------------------------------------------------------- C20

\* the player sits out the round that was begun last
Skipped(p) == pc # "idle" /\ p \notin Range(active_players)

\* nobody plays the round that was begun last
AllSkipped == \A p \in PlayerNames : Skipped(p)

\* the players skipped are those who cannot afford their bet
C20_Skipped ==
    \A p \in PlayerNames :
        pc # "idle" => (Skipped(p) <=> round_bankroll[p] < bet_amount[p])

C20_Step ==
    /\ \A p \in PlayerNames :
           Skipped(p) => bankroll'[p] = bankroll[p] /\ Skipped(p)'
    /\ AllSkipped =>
           /\ AllSkipped'
           /\ shoe' = shoe
           /\ draws' = <<>>
           /\ Len(returned') = Len(players)
           /\ \A i \in DOMAIN returned' : returned'[i].outcome = "skip"

\* C20: being skipped is permanent within a session: once a player is
\* skipped in a round (bankroll < bet_amount) the player's bankroll never
\* changes again and the player is skipped in every later round; once every
\* player is skipped, every later play_round returns only skip results and
\* draws no card from the shoe.
C20_SkipIsPermanent == []C20_Skipped /\ [][C20_Step]_vars

\* a later round of a session in which a round has left everybody skipped:
\* the player who lost the only bet sits out with the one skipped before
C20_Witness ==
    /\ round_number = 2
    /\ pc = "done"
    /\ AllSkipped
    /\ requested.bankroll["P1"] = 10
    /\ bankroll["P1"] = 0
    /\ Len(returned) = 2

\* -------------------------------------------------------------------- C21

\* the indices of the results returned for player p
C21_ResultsFor(p) == {i \in DOMAIN returned : returned[i].player_name = p}

\* the indices of the results returned that are no skip
C21_Played == {i \in DOMAIN returned : returned[i].outcome # "skip"}

\* the place of the player in the configured order
C21_Place(p) == CHOOSE i \in DOMAIN players : players[i] = p

\* C21: every call of play_round that completes returns exactly one
\* GameResult for each configured player, a skip result or a resolved one,
\* never none and never two for the same player; the results of the active
\* players come in configured order, and every resolved result of the round
\* reports the same dealer_total.
C21_OneResultEach ==
    pc = "done" =>
        /\ Len(returned) = Len(players)
        /\ \A p \in PlayerNames : Cardinality(C21_ResultsFor(p)) = 1
        /\ \A i \in DOMAIN returned :
               /\ returned[i].player_name \in PlayerNames
               /\ returned[i].outcome
                      \in {"skip", "win", "lose", "push", "blackjack"}
               /\ returned[i].outcome = "skip"
                      <=> round_bankroll[returned[i].player_name]
                              < bet_amount[returned[i].player_name]
        /\ \A i, j \in C21_Played :
               /\ i < j => C21_Place(returned[i].player_name)
                               < C21_Place(returned[j].player_name)
               /\ returned[i].dealer_total = returned[j].dealer_total

\* a call returned two resolved results with different outcomes
C21_Witness ==
    /\ pc = "done"
    /\ C21_Played = {1, 2}
    /\ returned[1].outcome # returned[2].outcome
    /\ returned[1].dealer_total > 0

====
